---- MODULE Spec2Model ----
(***************************************************************************)
(* A model of the roguelike demo in src/main.rs: the Game state built by   *)
(* Game::new, the per-frame Game::update step driven by the keyboard, the  *)
(* Game::draw step with its lazily loading assets, and generate_map.       *)
(*                                                                         *)
(* Grid coordinates are stored by the program as f32 values that are       *)
(* always small whole numbers (they start whole and only change by +-1.0   *)
(* with clamping), so they are modelled as integers.                       *)
(***************************************************************************)
EXTENDS Integers, Sequences, FiniteSets

VARIABLES
    map_size,        \* Game.map_size, <<width, height>>
    map,             \* Game.map, the Vec<Tile> in push order
    entities,        \* Game.entities, the Vec<Entity> in push order
    player_id,       \* Game.player_id, a 0-based index into entities
    confirming_exit, \* Game.confirming_exit
    assets,          \* the Asset<..> fields that have reached the Loaded state
    status,          \* "new", "generated", "running", "closed", "error"
    kb,              \* window.keyboard() as seen by the latest update
    prev,            \* history: player position and mode before the latest update
    esc_seen,        \* history: some update in Normal mode saw Escape Pressed
    frame,           \* history: what the draws since the latest update issued
    updates          \* number of updates run, counted where update is applied once

vars == <<map_size, map, entities, player_id, confirming_exit, assets, status,
          kb, prev, esc_seen, frame, updates>>

----------------------------------------------------------------------------
(* Bounds of the model *)

\* at most this many keys are down at once, over a run of updates
MaxDown == 1
\* at most this many keys are down at once, when update is applied once to
\* every position and mode
MaxChord == 2
\* draw is run from the games with the player at most this far from the start
MaxDrawDistance == 1
\* generate_map is tried on every size 0..MaxSide x 0..MaxSide
MaxSide == 9

----------------------------------------------------------------------------
(* Program constants *)

MapWidth == 20
MapHeight == 15
PlayerStartX == 5
PlayerStartY == 3
PlayerHp == 3
PlayerMaxHp == 5
TileSizePx == 24
OffsetXPx == 175
OffsetYPx == 120
ScreenWidthPx == 800
ScreenHeightPx == 600
FullHealthWidthPx == 100

WallGlyph == "#"
FloorGlyph == "."
GameGlyphs == <<"#", "@", "g", ".", "%">>

Max(a, b) == IF a >= b THEN a ELSE b
Min(a, b) == IF a <= b THEN a ELSE b

----------------------------------------------------------------------------
(* generate_map *)

IsBorderOffByOne(x, y, width, height) ==
    x = 0 \/ x = width \/ y = 0 \/ y = height

\* the condition under which a tile gets the wall glyph
IsBorder(x, y, width, height) ==
    x = 0 \/ x = width - 1 \/ y = 0 \/ y = height - 1

NewTile(x, y, width, height) ==
    [pos   |-> <<x, y>>,
     glyph |-> IF IsBorder(x, y, width, height) THEN WallGlyph ELSE FloorGlyph,
     color |-> "BLACK"]

\* the inner loop, for y in 0..height: the tiles it pushes from y on
RECURSIVE InnerLoop(_, _, _, _)
InnerLoop(x, y, width, height) ==
    IF y >= height THEN <<>>
    ELSE <<NewTile(x, y, width, height)>> \o InnerLoop(x, y + 1, width, height)

\* the outer loop, for x in 0..width: the tiles pushed from x on
RECURSIVE OuterLoop(_, _, _)
OuterLoop(x, width, height) ==
    IF x >= width THEN <<>>
    ELSE InnerLoop(x, 0, width, height) \o OuterLoop(x + 1, width, height)

generate_map(size) == OuterLoop(0, size[1], size[2])

----------------------------------------------------------------------------
(* generate_entities and the player *)

NewEntity(x, y, glyph, color, hp, max_hp) ==
    [pos |-> <<x, y>>, glyph |-> glyph, color |-> color, hp |-> hp, max_hp |-> max_hp]

generate_entities ==
    << NewEntity(9, 6, "g", "RED", 1, 1),
       NewEntity(9, 6, "g", "RED", 1, 1),
       NewEntity(2, 4, "g", "RED", 1, 1),
       NewEntity(7, 5, "%", "PURPLE", 0, 0),
       NewEntity(4, 8, "%", "PURPLE", 0, 0) >>

PlayerEntity == NewEntity(PlayerStartX, PlayerStartY, "@", "BLUE", PlayerHp, PlayerMaxHp)

\* the map Game::new stores
GeneratedMap == generate_map(<<MapWidth, MapHeight>>)

\* the entity list Game::new stores: the generated ones, then the player
InitialEntities == Append(generate_entities, PlayerEntity)

\* self.entities[self.player_id], with the model's 1-based sequences
Player == entities[player_id + 1]

----------------------------------------------------------------------------
(* The keyboard *)

Keys == {"Left", "Right", "Up", "Down", "Escape", "Y", "N"}

\* What window.keyboard()[key] reports. The engine's fourth value, Released
\* (shown for the one update after a key goes up), is not told apart from
\* NotPressed: update compares with Pressed only, and a key that was just
\* released can do next exactly what a key that is not pressed can.
ButtonState == {"Pressed", "Held", "NotPressed"}

AllNotPressed == [k \in Keys |-> "NotPressed"]

\* the keys that are down in a keyboard
Down(kbd) == {k \in Keys : kbd[k] \in {"Pressed", "Held"}}

\* every keyboard with at most maxDown keys down
Keyboards(maxDown) ==
    {kbd \in [Keys -> ButtonState] : Cardinality(Down(kbd)) <= maxDown}

\* The keyboards the next update can see: a key that is down stays down, and
\* then shows Held, or goes up; a key that is up stays up or goes down, and
\* then shows Pressed for this one update. At most maxDown keys are down.
NextKeyboards(kbd, maxDown) ==
    {[k \in Keys |-> IF k \in stay THEN "Held"
                     ELSE IF k \in fresh THEN "Pressed" ELSE "NotPressed"] :
        <<stay, fresh>> \in
            {sf \in (SUBSET Down(kbd)) \X (SUBSET (Keys \ Down(kbd))) :
                Cardinality(sf[1]) + Cardinality(sf[2]) <= maxDown}}

----------------------------------------------------------------------------
(* Game::update *)

IsDown(kbd, key) == kbd[key] \in {"Pressed", "Held"}

\* window.keyboard()[key] == Pressed
JustPressed(kbd, key) == kbd[key] = "Pressed"

\* (player.pos.x - 1.0).max(0.0)
MoveLeft(x) == Max(x - 1, 0)

\* (player.pos.x + 1.0).min(self.map_size.x - 1.0)
MoveRight(x, width) == Min(x + 1, width - 1)

MoveUpUnclamped(y) == y - 1

\* (player.pos.y - 1.0).max(0.0)
MoveUp(y) == Max(y - 1, 0)

\* (player.pos.y + 1.0).min(self.map_size.y - 1.0)
MoveDown(y, height) == Min(y + 1, height - 1)

MovePlayerDownFirst(pos, size, kbd) ==
    LET x1 == IF JustPressed(kbd, "Left") THEN MoveLeft(pos[1]) ELSE pos[1]
        x2 == IF JustPressed(kbd, "Right") THEN MoveRight(x1, size[1]) ELSE x1
        y1 == IF JustPressed(kbd, "Down") THEN MoveDown(pos[2], size[2]) ELSE pos[2]
        y2 == IF JustPressed(kbd, "Up") THEN MoveUp(y1) ELSE y1
    IN  <<x2, y2>>

\* the four movement tests, in the order of the code: Left, Right, Up, Down
MovePlayer(pos, size, kbd) ==
    LET x1 == IF JustPressed(kbd, "Left") THEN MoveLeft(pos[1]) ELSE pos[1]
        x2 == IF JustPressed(kbd, "Right") THEN MoveRight(x1, size[1]) ELSE x1
        y1 == IF JustPressed(kbd, "Up") THEN MoveUp(pos[2]) ELSE pos[2]
        y2 == IF JustPressed(kbd, "Down") THEN MoveDown(y1, size[2]) ELSE y1
    IN  <<x2, y2>>

UpdateConfirmingDenyOnlyN(self, kbd) ==
    IF JustPressed(kbd, "Y") THEN [self EXCEPT !.closed = TRUE]
    ELSE IF JustPressed(kbd, "N") THEN [self EXCEPT !.confirming_exit = FALSE]
    ELSE self

UpdateConfirmingMoves(self, kbd) ==
    LET moved == [self EXCEPT !.entities[self.player_id + 1].pos =
                                   MovePlayer(@, self.map_size, kbd)]
    IN  IF JustPressed(kbd, "Y") THEN [moved EXCEPT !.closed = TRUE]
        ELSE IF JustPressed(kbd, "N") \/ JustPressed(kbd, "Escape")
             THEN [moved EXCEPT !.confirming_exit = FALSE]
        ELSE moved

\* the branch taken when self.confirming_exit holds
UpdateConfirming(self, kbd) ==
    IF JustPressed(kbd, "Y") THEN [self EXCEPT !.closed = TRUE]
    ELSE IF JustPressed(kbd, "N") \/ JustPressed(kbd, "Escape")
         THEN [self EXCEPT !.confirming_exit = FALSE]
    ELSE self

UpdateNormalQuitsOnY(self, kbd) ==
    LET moved == [self EXCEPT !.entities[self.player_id + 1].pos =
                                   MovePlayer(@, self.map_size, kbd)]
    IN  IF JustPressed(kbd, "Y") THEN [moved EXCEPT !.closed = TRUE]
        ELSE IF JustPressed(kbd, "Escape") THEN [moved EXCEPT !.confirming_exit = TRUE]
        ELSE moved

UpdateNormalOpensOnN(self, kbd) ==
    LET moved == [self EXCEPT !.entities[self.player_id + 1].pos =
                                   MovePlayer(@, self.map_size, kbd)]
    IN  IF JustPressed(kbd, "Escape") \/ JustPressed(kbd, "N")
        THEN [moved EXCEPT !.confirming_exit = TRUE]
        ELSE moved

UpdateNormalWrongEntity(self, kbd) ==
    LET moved == [self EXCEPT !.entities[1].pos = MovePlayer(@, self.map_size, kbd)]
    IN  IF JustPressed(kbd, "Escape") THEN [moved EXCEPT !.confirming_exit = TRUE]
        ELSE moved

\* the branch taken otherwise: move the player, then open the exit dialog
UpdateNormal(self, kbd) ==
    LET moved == [self EXCEPT !.entities[self.player_id + 1].pos =
                                   MovePlayer(@, self.map_size, kbd)]
    IN  IF JustPressed(kbd, "Escape") THEN [moved EXCEPT !.confirming_exit = TRUE]
        ELSE moved

\* Game::update as a function of the game and the keyboard it reads
update(self, kbd) ==
    IF self.confirming_exit THEN UpdateConfirming(self, kbd)
    ELSE UpdateNormal(self, kbd)

\* the fields of Game that update can reach, and whether window.close() ran
Self ==
    [map_size |-> map_size, map |-> map, entities |-> entities,
     player_id |-> player_id, confirming_exit |-> confirming_exit, closed |-> FALSE]

\* no draw has run since the latest update
NoFrame == [n |-> 0, quiet |-> 0, cmds |-> <<>>]

\* one run of Game::update, reading one of the given keyboards
UpdateWith(keyboards) ==
    /\ status = "running"
    /\ \E kbd \in keyboards :
         \E after \in {update(Self, kbd)} :
             /\ kb' = kbd
             /\ map_size' = after.map_size
             /\ map' = after.map
             /\ entities' = after.entities
             /\ player_id' = after.player_id
             /\ confirming_exit' = after.confirming_exit
             /\ status' = IF after.closed THEN "closed" ELSE status
             /\ prev' = [valid |-> TRUE, pos |-> Player.pos,
                         confirming_exit |-> confirming_exit]
             /\ esc_seen' = (esc_seen \/ (~confirming_exit /\ kbd["Escape"] = "Pressed"))
    /\ frame' = NoFrame
    /\ UNCHANGED assets

\* one run of Game::update on the keyboard of the next frame
Update(maxDown) == UpdateWith(NextKeyboards(kb, maxDown))

----------------------------------------------------------------------------
(* Game::draw *)

\* the Asset fields of Game
Assets == {"title", "mononoki_font_info", "square_font_info", "tileset",
           "confirm_exit_font"}

\* the asset each execute call of draw uses, in the order of the calls; the
\* tileset is used twice, for the tiles and then for the entities
Sites == <<"title", "mononoki_font_info", "square_font_info", "tileset", "tileset",
           "confirm_exit_font">>
DialogSite == Len(Sites)

\* How the execute calls from the i-th on can end, given the assets loaded so
\* far. A loaded asset runs its closure ("ready"). One still loading is polled:
\* it is ready now and becomes loaded, or it is pending and the call does
\* nothing, or its load failed and draw returns the error. A call that is not
\* reached (after an error, or the dialog's outside the exit dialog) is "none".
RECURSIVE Outcomes(_, _, _, _)
Outcomes(i, loaded, alive, confirming) ==
    IF i > Len(Sites) THEN {<<>>}
    ELSE LET a == Sites[i]
             opts == IF ~alive \/ (i = DialogSite /\ ~confirming) THEN {"none"}
                     ELSE IF a \in loaded THEN {"ready"}
                     ELSE {"ready", "pending", "failed"}
         IN  UNION {{<<o>> \o rest :
                        rest \in Outcomes(i + 1,
                                          IF o = "ready" THEN loaded \cup {a} ELSE loaded,
                                          alive /\ o # "failed", confirming)}
                    : o \in opts}

Failed(outs) == \E i \in 1..Len(outs) : outs[i] = "failed"

\* the assets in the Loaded state after the calls
LoadedAfter(loaded, outs) ==
    loaded \cup {Sites[i] : i \in {j \in 1..Len(outs) : outs[j] = "ready"}}

KeepBuffer(buffer) == buffer

\* window.clear(Color::WHITE): what was drawn before is gone
WindowClear(buffer) == <<[op |-> "clear", color |-> "WHITE"]>>

\* the glyphs the tileset has an image for
TilesetGlyphs == {GameGlyphs[i] : i \in 1..Len(GameGlyphs)}

\* grid position to pixel position: pos.times(tile_size_px) + offset_px
ToPixels(pos) == <<pos[1] * TileSizePx + OffsetXPx, pos[2] * TileSizePx + OffsetYPx>>

\* one Blended draw per tile or entity whose glyph the tileset has
GlyphCommands(things) ==
    LET shown == SelectSeq(things, LAMBDA t : t.glyph \in TilesetGlyphs)
    IN  [i \in 1..Len(shown) |->
            [op |-> "blended", glyph |-> shown[i].glyph, color |-> shown[i].color,
             at |-> ToPixels(shown[i].pos)]]

\* the two rectangles of the health bar; the width of the second is
\* (hp / max_hp) * 100 in f32, kept here as the fraction <<hp * 100, max_hp>>
HealthBarCommands(self) ==
    LET player == self.entities[self.player_id + 1]
        at == <<OffsetXPx + self.map_size[1] * TileSizePx, OffsetYPx>>
    IN  << [op |-> "rect", at |-> at, width |-> <<FullHealthWidthPx, 1>>,
            height |-> TileSizePx, color |-> "RED", alpha |-> "0.5"],
           [op |-> "rect", at |-> at,
            width |-> <<player.hp * FullHealthWidthPx, player.max_hp>>,
            height |-> TileSizePx, color |-> "RED", alpha |-> "1.0"] >>

\* what each execute call draws when its asset is there
SiteCommands(self, i) ==
    CASE i = 1 -> <<[op |-> "img", image |-> "title",
                     at |-> <<"center", ScreenWidthPx \div 2, 40>>]>>
      [] i = 2 -> <<[op |-> "img", image |-> "mononoki_font_info",
                     at |-> <<"translate", 2, ScreenHeightPx - 60>>]>>
      [] i = 3 -> <<[op |-> "img", image |-> "square_font_info",
                     at |-> <<"translate", 2, ScreenHeightPx - 30>>]>>
      [] i = 4 -> GlyphCommands(self.map)
      [] i = 5 -> GlyphCommands(self.entities)
      [] i = 6 -> <<[op |-> "img", image |-> "Are you sure you want to quit? (Y/N)",
                     at |-> <<"translate", 100, 100>>]>>

\* the draw commands of one run of draw, given how its execute calls end,
\* what each call draws when it runs, and the health bar drawn after the
\* fifth call unless an error has ended draw by then
DrawCommands(parts, bar, outs, buffer) ==
    LET part(i) == IF outs[i] = "ready" THEN parts[i] ELSE <<>>
        reached == \A i \in 1..5 : outs[i] # "failed"
    IN  WindowClear(buffer) \o part(1) \o part(2) \o part(3) \o part(4) \o part(5)
        \o (IF reached THEN bar ELSE <<>>) \o part(6)

\* one run of Game::draw
Draw ==
    /\ status = "running"
    /\ \E parts \in {[i \in 1..Len(Sites) |-> SiteCommands(Self, i)]} :
       \E bar \in {HealthBarCommands(Self)} :
       \E outs \in Outcomes(1, assets, TRUE, confirming_exit) :
         /\ assets' = LoadedAfter(assets, outs)
         /\ status' = IF Failed(outs) THEN "error" ELSE status
         /\ frame' = [n     |-> Min(frame.n + 1, 2),
                      quiet |-> IF assets' = assets /\ ~Failed(outs)
                                THEN Min(frame.quiet + 1, 2) ELSE 0,
                      cmds  |-> DrawCommands(parts, bar, outs, frame.cmds)]
    /\ UNCHANGED <<map_size, map, entities, player_id, confirming_exit, kb, prev,
                   esc_seen, updates>>

----------------------------------------------------------------------------
(* Game::new and the update loop *)

Init ==
    /\ map_size = <<MapWidth, MapHeight>>
    /\ map = GeneratedMap
    /\ entities = InitialEntities
    /\ player_id = Len(generate_entities)
    /\ confirming_exit = FALSE
    /\ assets = {}
    /\ status = "running"
    /\ kb = AllNotPressed
    /\ prev = [valid |-> FALSE, pos |-> <<PlayerStartX, PlayerStartY>>,
               confirming_exit |-> FALSE]
    /\ esc_seen = FALSE
    /\ frame = NoFrame
    /\ updates = 0

Next == Update(MaxDown) /\ UNCHANGED updates

Spec == Init /\ [][Next]_vars

----------------------------------------------------------------------------
(* Game::update applied once, to every position of the player and either   *)
(* mode, on every keyboard with at most MaxChord keys down                  *)

InitStep ==
    /\ map_size = <<MapWidth, MapHeight>>
    /\ map = GeneratedMap
    /\ \E pos \in (0..(MapWidth - 1)) \X (0..(MapHeight - 1)) :
         entities = [InitialEntities EXCEPT ![Len(InitialEntities)].pos = pos]
    /\ player_id = Len(generate_entities)
    /\ confirming_exit \in BOOLEAN
    /\ assets = {}
    /\ status = "running"
    /\ kb = AllNotPressed
    /\ prev = [valid |-> FALSE, pos |-> <<PlayerStartX, PlayerStartY>>,
               confirming_exit |-> FALSE]
    /\ esc_seen = confirming_exit
    /\ frame = NoFrame
    /\ updates = 0

StepUpdate ==
    /\ updates = 0
    /\ UpdateWith(Keyboards(MaxChord))
    /\ updates' = 1

NextStep == StepUpdate

SpecStep == InitStep /\ [][NextStep]_vars

----------------------------------------------------------------------------
(* Game::draw run again and again with no update between the runs, from     *)
(* every game that updates alone can reach with the player at most          *)
(* MaxDrawDistance cells from the start on each axis: updates leave the     *)
(* assets alone, so every asset is still loading when the first draw runs   *)

InitDraw ==
    /\ map_size = <<MapWidth, MapHeight>>
    /\ map = GeneratedMap
    /\ \E pos \in ((PlayerStartX - MaxDrawDistance)..(PlayerStartX + MaxDrawDistance))
                  \X ((PlayerStartY - MaxDrawDistance)..(PlayerStartY + MaxDrawDistance)) :
         /\ pos[1] \in 0..(MapWidth - 1) /\ pos[2] \in 0..(MapHeight - 1)
         /\ entities = [InitialEntities EXCEPT ![Len(InitialEntities)].pos = pos]
    /\ player_id = Len(generate_entities)
    /\ confirming_exit \in BOOLEAN
    /\ assets = {}
    /\ status = "running"
    /\ kb = AllNotPressed
    /\ prev = [valid |-> FALSE, pos |-> <<PlayerStartX, PlayerStartY>>,
               confirming_exit |-> FALSE]
    /\ esc_seen = confirming_exit
    /\ frame = NoFrame
    /\ updates = 0

NextDraw == Draw

SpecDraw == InitDraw /\ [][NextDraw]_vars

----------------------------------------------------------------------------
(* generate_map on its own, over every size up to MaxSide x MaxSide *)

InitMap ==
    /\ map_size \in (0..MaxSide) \X (0..MaxSide)
    /\ map = <<>>
    /\ status = "new"
    /\ entities = <<>>
    /\ player_id = 0
    /\ confirming_exit = FALSE
    /\ assets = {}
    /\ kb = AllNotPressed
    /\ prev = [valid |-> FALSE, pos |-> <<0, 0>>, confirming_exit |-> FALSE]
    /\ esc_seen = FALSE
    /\ frame = NoFrame
    /\ updates = 0

GenerateMap ==
    /\ status = "new"
    /\ map' = generate_map(map_size)
    /\ status' = "generated"
    /\ UNCHANGED <<map_size, entities, player_id, confirming_exit, assets, kb, prev,
                   esc_seen, frame, updates>>

NextMap == GenerateMap

SpecMap == InitMap /\ [][NextMap]_vars

----------------------------------------------------------------------------
(* The claims. In a state reached by an update, prev holds the player's    *)
(* position and the mode the update started from, and kb the keyboard it   *)
(* read; a draw leaves both as they are.                                   *)

Pressed(key) == kb[key] = "Pressed"
Ran == prev.valid
RanNormal == prev.valid /\ ~prev.confirming_exit
RanConfirming == prev.valid /\ prev.confirming_exit
PlayerX == Player.pos[1]
PlayerY == Player.pos[2]

\* C1: an update in Normal mode ends with confirming_exit set if and only if
\* it read Escape as Pressed, whatever arrow keys, Y or N it read as Pressed.
C1_NormalOpensOnEscapeOnly ==
    RanNormal => (confirming_exit <=> Pressed("Escape"))

C1_Witness ==
    /\ RanNormal /\ Pressed("N") /\ Pressed("Y") /\ ~confirming_exit

\* C2, as stated: an update in ConfirmingExit mode that read N or Escape as
\* Pressed ends in Normal mode, whatever else it read.
C2_DenyAlwaysReturnsToNormal ==
    (RanConfirming /\ (Pressed("N") \/ Pressed("Escape"))) => ~confirming_exit

\* C2, amended: an update in ConfirmingExit mode that read N or Escape as
\* Pressed ends in Normal mode with the window open, unless it also read Y as
\* Pressed: then it closes the window and leaves confirming_exit set.
C2_DenyReturnsToNormalUnlessConfirmed ==
    (RanConfirming /\ (Pressed("N") \/ Pressed("Escape"))) =>
        IF Pressed("Y") THEN confirming_exit /\ status = "closed"
        ELSE ~confirming_exit /\ status # "closed"

C2_Witness ==
    /\ RanConfirming /\ Pressed("Escape") /\ Pressed("Left")
    /\ ~confirming_exit /\ status = "running"

\* C3: the window is closed exactly by an update that starts in ConfirmingExit
\* mode and reads Y as Pressed, and by that very update; an update in Normal
\* mode never closes it; and before every quit some update in Normal mode
\* read Escape as Pressed.
C3_QuitOnlyByConfirmedY ==
    /\ status = "closed" => (RanConfirming /\ Pressed("Y") /\ esc_seen)
    /\ (RanConfirming /\ Pressed("Y")) => status = "closed"
    /\ RanNormal => status # "closed"

C3_Witness ==
    /\ status = "closed" /\ RanConfirming /\ Pressed("Y") /\ esc_seen

\* C4: the player stays on the map, 0 <= x <= 19 and 0 <= y <= 14; Left read
\* as Pressed at x = 0 leaves x at 0 and Right read as Pressed at x = 19
\* leaves x at 19.
C4_PlayerStaysOnMap ==
    status \in {"running", "closed"} =>
        /\ PlayerX \in 0..19 /\ PlayerY \in 0..14
        /\ PlayerX <= map_size[1] - 1 /\ PlayerY <= map_size[2] - 1
        /\ (RanNormal /\ prev.pos[1] = 0 /\ Pressed("Left") /\ ~Pressed("Right"))
               => PlayerX = 0
        /\ (RanNormal /\ prev.pos[1] = 19 /\ Pressed("Right")) => PlayerX = 19

C4_Witness ==
    /\ RanNormal /\ prev.pos[1] = 19 /\ Pressed("Right") /\ PlayerX = 19

\* C5: an update in Normal mode moves the player by one cell per arrow key
\* read as Pressed, clamped to the map, Left before Right and Up before Down,
\* the two axes apart from each other; with no arrow key Pressed the player
\* stays. Left and Right together cancel, except at x = 0 where the clamped
\* Left does nothing and Right then moves to x = 1; likewise Up and Down.
C5_MovementByPressedArrows ==
    RanNormal =>
        LET px == prev.pos[1]
            py == prev.pos[2]
        IN  /\ PlayerX = CASE Pressed("Left") /\ ~Pressed("Right") ->
                            (IF px > 0 THEN px - 1 ELSE 0)
                     [] ~Pressed("Left") /\ Pressed("Right") ->
                            (IF px < 19 THEN px + 1 ELSE 19)
                     [] Pressed("Left") /\ Pressed("Right") ->
                            (IF px = 0 THEN 1 ELSE px)
                     [] OTHER -> px
            /\ PlayerY = CASE Pressed("Up") /\ ~Pressed("Down") ->
                            (IF py > 0 THEN py - 1 ELSE 0)
                     [] ~Pressed("Up") /\ Pressed("Down") ->
                            (IF py < 14 THEN py + 1 ELSE 14)
                     [] Pressed("Up") /\ Pressed("Down") ->
                            (IF py = 0 THEN 1 ELSE py)
                     [] OTHER -> py

C5_Witness ==
    /\ RanNormal /\ Pressed("Left") /\ Pressed("Up")
    /\ prev.pos = <<5, 3>> /\ Player.pos = <<4, 2>>

\* C6: a key that an update reads as Held has no effect: the player moves
\* along an axis only if an arrow key of that axis is read as Pressed, the
\* mode changes only if Escape or N is read as Pressed, and the window closes
\* only if Y is read as Pressed. A key shows Pressed in the first update after
\* it goes down and Held after that, so holding it acts once.
C6_HeldKeysHaveNoEffect ==
    Ran =>
        /\ (~Pressed("Left") /\ ~Pressed("Right")) => PlayerX = prev.pos[1]
        /\ (~Pressed("Up") /\ ~Pressed("Down")) => PlayerY = prev.pos[2]
        /\ (~Pressed("Escape") /\ ~Pressed("N")) =>
               confirming_exit = prev.confirming_exit
        /\ ~Pressed("Y") => status # "closed"

C6_Witness ==
    /\ RanNormal /\ kb["Left"] = "Held"
    /\ prev.pos = <<4, 3>> /\ Player.pos = <<4, 3>>

\* C7: for every size with width and height at least 3, generate_map returns
\* width * height tiles, exactly one for each cell of the grid; a tile has the
\* wall glyph if and only if it lies on the border, every other tile has the
\* floor glyph, and 2 * width + 2 * height - 4 tiles are walls.
C7_GeneratedMapIsBorderedGrid ==
    (status = "generated" /\ map_size[1] >= 3 /\ map_size[2] >= 3) =>
        LET w == map_size[1]
            h == map_size[2]
            walls == {i \in 1..Len(map) : map[i].glyph = "#"}
        IN  /\ Len(map) = w * h
            /\ \A x \in 0..(w - 1) : \A y \in 0..(h - 1) :
                   Cardinality({i \in 1..Len(map) : map[i].pos = <<x, y>>}) = 1
            /\ \A i \in 1..Len(map) :
                   LET x == map[i].pos[1]
                       y == map[i].pos[2]
                       border == x = 0 \/ x = w - 1 \/ y = 0 \/ y = h - 1
                   IN  /\ x \in 0..(w - 1) /\ y \in 0..(h - 1)
                       /\ map[i].glyph = (IF border THEN "#" ELSE ".")
            /\ Cardinality(walls) = 2 * w + 2 * h - 4

C7_Witness ==
    /\ status = "generated" /\ map_size = <<5, 4>> /\ Len(map) = 20
    /\ Cardinality({i \in 1..Len(map) : map[i].glyph = "#"}) = 14

\* a step that is a draw coming after another draw, with no update between
SecondDraw == frame.n >= 1 /\ frame'.n >= 1

GameUntouched == UNCHANGED <<map_size, map, entities, player_id, confirming_exit>>

C9_NoMovementWhileConfirming ==
    RanConfirming =>
        /\ Player.pos = prev.pos
        /\ \A i \in 1..Len(generate_entities) : entities[i] = generate_entities[i]
        /\ (~Pressed("Y") /\ ~Pressed("N") /\ ~Pressed("Escape")) =>
               (confirming_exit /\ status # "closed")

C9_Witness ==
    /\ RanConfirming /\ Pressed("Left") /\ Pressed("Down")
    /\ prev.pos = <<5, 3>> /\ Player.pos = <<5, 3>> /\ confirming_exit

\* C10: after any number of updates the map is the generated map, the entity
\* list has its 6 entries in their order, player_id is 5 and names the '@'
\* entity, the 5 other entities are where they started, and every entity has
\* the glyph, color, hp and max_hp it started with, with 0 <= hp <= max_hp
\* and the player at hp 3 of 5.
C10_UpdateTouchesOnlyPlayerPosition ==
    status \in {"running", "closed"} =>
        /\ map = GeneratedMap
        /\ map_size = <<MapWidth, MapHeight>>
        /\ Len(entities) = 6
        /\ player_id = 5
        /\ Player.glyph = "@"
        /\ \A i \in 1..5 : entities[i].pos = generate_entities[i].pos
        /\ \A i \in 1..6 :
               /\ entities[i].glyph = InitialEntities[i].glyph
               /\ entities[i].color = InitialEntities[i].color
               /\ entities[i].hp = InitialEntities[i].hp
               /\ entities[i].max_hp = InitialEntities[i].max_hp
               /\ 0 <= entities[i].hp /\ entities[i].hp <= entities[i].max_hp
        /\ Player.hp = 3 /\ Player.max_hp = 5

C10_Witness ==
    /\ Ran /\ confirming_exit /\ Player.pos = <<0, 0>>

====
